---------------------------- MODULE Spec2Model ----------------------------
(***************************************************************************)
(* The federation destinations admin listing of Synapse:                   *)
(*   GET /_synapse/admin/v1/federation/destinations                        *)
(* FederationDestinationRestServlet.on_GET validates the query parameters, *)
(* calls the store's get_destinations_paginate once and shapes the         *)
(* response with its continuation token.                                   *)
(*                                                                         *)
(* Text values that are ordered, searched or converted (destination names, *)
(* the raw `from`/`limit` parameters, next_token) are sequences of ASCII   *)
(* codes; the enum tokens order_by and dir are only compared for equality  *)
(* and are TLA+ strings.                                                   *)
(***************************************************************************)
EXTENDS Integers, Sequences, FiniteSets, TLC

VARIABLES store, wpc, pc, req, resp, view, client

vars == <<store, wpc, pc, req, resp, view, client>>

-----------------------------------------------------------------------------
(* Bounds of the model *)

\* initial collections hold 0..NumDests destinations
NumDests == 3
\* the raw `from` parameter ranges over absent, -1 and 0..MaxFrom
MaxFrom == 3
\* the raw `limit` parameter ranges over absent, -1 and 0..MaxLimit
MaxLimit == 2

-----------------------------------------------------------------------------
(* Text and integer conversions *)

Min(a, b) == IF a < b THEN a ELSE b

Max(a, b) == IF a < b THEN b ELSE a

RECURSIVE Digits(_)
Digits(n) == IF n < 10 THEN <<48 + n>> ELSE Digits(n \div 10) \o <<48 + (n % 10)>>

\* Python's str() of an integer: decimal digits, "-" (45) in front of a negative
str(n) == IF n < 0 THEN <<45>> \o Digits(0 - n) ELSE Digits(n)

RECURSIVE DigitsValue(_)
DigitsValue(s) == IF s = <<>> THEN 0 ELSE 10 * DigitsValue(SubSeq(s, 1, Len(s) - 1)) + (s[Len(s)] - 48)

\* Python's int() of a decimal string
int(s) == IF s[1] = 45 THEN 0 - DigitsValue(Tail(s)) ELSE DigitsValue(s)

\* SQL NULL / Python None in a nullable column
Null == -1

\* lexicographic order of two texts
RECURSIVE LexLess(_, _)
LexLess(s, t) == IF t = <<>> THEN FALSE ELSE IF s = <<>> THEN TRUE ELSE IF s[1] # t[1] THEN s[1] < t[1] ELSE LexLess(Tail(s), Tail(t))

\* sub occurs in s as a contiguous substring
Contains(s, sub) == \E i \in 0..(Len(s) - Len(sub)) : SubSeq(s, i + 1, i + Len(sub)) = sub

-----------------------------------------------------------------------------
(* The destination collection and its writers (storage collaborator) *)

\* server names, in the order the test fixture creates them
DestNames == << <<98>>, <<97, 98>>, <<97>>, <<99, 97>>, <<99>> >>

DestName(i) == DestNames[i]

AllDests == {DestName(i) : i \in 1..NumDests}

SortKeys == {"destination", "retry_last_ts", "retry_interval", "failure_ts", "last_successful_stream_ordering"}

\* upsert of the retry timing columns; last_successful_stream_ordering is kept
set_destination_retry_timings(st, dest, failure_ts, retry_last_ts, retry_interval) == [d \in (DOMAIN st) \cup {dest} |-> IF d # dest THEN st[d] ELSE [failure_ts |-> failure_ts, retry_last_ts |-> retry_last_ts, retry_interval |-> retry_interval, last_successful_stream_ordering |-> IF dest \in DOMAIN st THEN st[dest].last_successful_stream_ordering ELSE Null]]

\* upsert of the delivery watermark; a new record has never been retried
set_destination_last_successful_stream_ordering(st, dest, ordering) == [d \in (DOMAIN st) \cup {dest} |-> IF d # dest THEN st[d] ELSE IF dest \in DOMAIN st THEN [st[dest] EXCEPT !.last_successful_stream_ordering = ordering] ELSE [failure_ts |-> Null, retry_last_ts |-> 0, retry_interval |-> 0, last_successful_stream_ordering |-> ordering]]

\* the fixture: destination i gets the same now_ms stamps and 100 * i (here i)
RECURSIVE _create_destinations(_)
_create_destinations(n) == IF n = 0 THEN <<>> ELSE set_destination_last_successful_stream_ordering(set_destination_retry_timings(_create_destinations(n - 1), DestName(n), 1, 2, n), DestName(n), n)

\* the retry-timing writes a federation sender makes: a reset after success,
\* a first failure, a repeated failure with a longer backoff
TimingInputs == { <<Null, 0, 0>>, <<1, 1, 2>>, <<1, 3, 1>> }

OrderingInputs == {1, 2}

-----------------------------------------------------------------------------
(* The Destination Query Engine (storage collaborator) *)

\* the column a numeric sort key reads; NULL sorts as 0
SortValue(st, d, order_by) == LET v == CASE order_by = "retry_last_ts" -> st[d].retry_last_ts [] order_by = "retry_interval" -> st[d].retry_interval [] order_by = "failure_ts" -> st[d].failure_ts [] order_by = "last_successful_stream_ordering" -> st[d].last_successful_stream_ordering [] OTHER -> 0 IN IF v = Null THEN 0 ELSE v

\* ascending on the chosen key, ties ascending by destination
Ascending(st, a, b, order_by) == IF order_by = "destination" THEN LexLess(a, b) ELSE \/ SortValue(st, a, order_by) < SortValue(st, b, order_by)
                                                                                    \/ (SortValue(st, a, order_by) = SortValue(st, b, order_by) /\ LexLess(a, b))

\* a precedes b in the requested order: backward reverses the primary
\* order and the tie-break
Precedes(st, a, b, order_by, direction) == IF direction = "b" THEN Ascending(st, b, a, order_by) ELSE Ascending(st, a, b, order_by)

\* the destinations the filter keeps (None keeps all; otherwise a substring match)
Matching(st, destination) == {d \in DOMAIN st : Contains(d, destination)}

\* the filtered destinations in the requested order
Ordered(st, destination, order_by, direction) == LET ds == Matching(st, destination) IN [i \in 1..Cardinality(ds) |-> CHOOSE d \in ds : Cardinality({e \in ds : Precedes(st, e, d, order_by, direction)}) = i - 1]

Row(st, d) == [destination |-> d, retry_last_ts |-> st[d].retry_last_ts, retry_interval |-> st[d].retry_interval, failure_ts |-> st[d].failure_ts, last_successful_stream_ordering |-> st[d].last_successful_stream_ordering]

\* paginate(start, limit, filter, orderBy, direction) -> (records, total):
\* the window [start, start + limit) of the ordered filtered sequence, and
\* the count of the filtered set, both from one view st of the collection
get_destinations_paginate(st, start, limit, destination, order_by, direction) == LET all == Ordered(st, destination, order_by, direction) IN << [i \in 1..Max(0, Min(limit, Len(all) - start)) |-> Row(st, all[start + i])], Len(all) >>

-----------------------------------------------------------------------------
(* Request parsing helpers (synapse.http.servlet) and error codes *)

INVALID_PARAM == "M_INVALID_PARAM"

UNKNOWN == "M_UNKNOWN"

FORBIDDEN == "M_FORBIDDEN"

\* no destination filter: the empty text, which every name contains
None == <<>>

\* the integer a query parameter holds, or the default when it is absent
parse_integer(args, name, default) == IF name \in DOMAIN args THEN int(args[name]) ELSE default

\* the text a query parameter holds, or the default when it is absent
parse_string(args, name, default) == IF name \in DOMAIN args THEN args[name] ELSE default

\* whether the (defaulted) value passes parse_string's allowed_values check
is_allowed(value, allowed_values) == value \in allowed_values

SynapseError(code, errcode) == [code |-> code, body |-> ("errcode" :> errcode)]

\* assert_requester_is_admin: raises AuthError 403 unless the requester is a server admin
assert_requester_is_admin(request) == request.admin

-----------------------------------------------------------------------------
(* FederationDestinationRestServlet.on_GET *)

DefaultStart == 0

DefaultLimit == 100

Start(args) == parse_integer(args, "from", DefaultStart)

Limit(args) == parse_integer(args, "limit", DefaultLimit)

Destination(args) == parse_string(args, "destination", None)

OrderBy(args) == parse_string(args, "order_by", "destination")

AllowedOrderBy == {"destination", "retry_last_ts", "retry_interval", "failure_ts", "last_successful_stream_ordering"}

Direction(args) == parse_string(args, "dir", "f")

AllowedDirs == {"f", "b"}

NoError == [code |-> 0, body |-> <<>>]

\* mutant: the enum checks made before the numeric ones
ValidationErrorEnumsFirst(args) == IF ~is_allowed(OrderBy(args), AllowedOrderBy) THEN SynapseError(400, UNKNOWN)
                                   ELSE IF ~is_allowed(Direction(args), AllowedDirs) THEN SynapseError(400, UNKNOWN)
                                   ELSE IF Start(args) < 0 THEN SynapseError(400, INVALID_PARAM)
                                   ELSE IF Limit(args) < 0 THEN SynapseError(400, INVALID_PARAM)
                                   ELSE NoError

\* mutant: dir parsed without allowed_values
ValidationErrorNoDirCheck(args) == IF Start(args) < 0 THEN SynapseError(400, INVALID_PARAM)
                                   ELSE IF Limit(args) < 0 THEN SynapseError(400, INVALID_PARAM)
                                   ELSE IF ~is_allowed(OrderBy(args), AllowedOrderBy) THEN SynapseError(400, UNKNOWN)
                                   ELSE NoError

\* the error the parameter checks raise, in the order the handler makes them
ValidationError(args) == IF Start(args) < 0 THEN SynapseError(400, INVALID_PARAM)
                         ELSE IF Limit(args) < 0 THEN SynapseError(400, INVALID_PARAM)
                         ELSE IF ~is_allowed(OrderBy(args), AllowedOrderBy) THEN SynapseError(400, UNKNOWN)
                         ELSE IF ~is_allowed(Direction(args), AllowedDirs) THEN SynapseError(400, UNKNOWN)
                         ELSE NoError

\* mutant: start and limit passed in the wrong order
QueryCallSwapped(st, start, limit, destination, order_by, direction) == get_destinations_paginate(st, limit, start, destination, order_by, direction)

\* mutant: the direction not passed on
QueryCallForwardOnly(st, start, limit, destination, order_by, direction) == get_destinations_paginate(st, start, limit, destination, order_by, "f")

\* the single call of the query engine, on the collection st as it is then
QueryCall(st, start, limit, destination, order_by, direction) == get_destinations_paginate(st, start, limit, destination, order_by, direction)

\* mutant: the size of the window reported as total
BodyWindowTotal(destinations, total) == ("destinations" :> destinations) @@ ("total" :> Len(destinations))

Body(destinations, total) == ("destinations" :> destinations) @@ ("total" :> total)

\* mutant: off by one in the comparison
HasNextTokenInclusive(start, limit, total) == (start + limit) <= total

HasNextToken(start, limit, total) == (start + limit) < total

\* mutant: the token skips one record
NextTokenOffByOne(start, destinations) == str(start + Len(destinations) + 1)

\* mutant: the token forgets the offset of the page
NextTokenPageOnly(start, destinations) == str(Len(destinations))

NextToken(start, destinations) == str(start + Len(destinations))

Response(start, limit, destinations, total) == [code |-> 200, body |-> IF HasNextToken(start, limit, total) THEN Body(destinations, total) @@ ("next_token" :> NextToken(start, destinations)) ELSE Body(destinations, total)]

\* what an authorized request gets from the collection st: the response, and
\* whether the query engine was called
on_GET(args, st) == IF ValidationError(args).code # 0 THEN [response |-> ValidationError(args), queried |-> FALSE]
                    ELSE LET q == QueryCall(st, Start(args), Limit(args), Destination(args), OrderBy(args), Direction(args))
                         IN [response |-> Response(Start(args), Limit(args), q[1], q[2]), queried |-> TRUE]

-----------------------------------------------------------------------------
(* Requests a caller can send *)

IntTexts(lo, hi) == {str(n) : n \in lo..hi}

\* a query parameter is absent or holds one of the values
Optional(name, values) == {<<>>} \cup {name :> v : v \in values}

QueryArgs(froms, limits, filters, orders, dirs) == {a @@ b @@ c @@ d @@ e : a \in Optional("from", froms), b \in Optional("limit", limits), c \in Optional("destination", filters), d \in Optional("order_by", orders), e \in Optional("dir", dirs)}

\* every combination, valid or not, from admins and from other users
AnyRequest == [args : QueryArgs(IntTexts(-1, MaxFrom), IntTexts(-1, MaxLimit), {<<97>>}, AllowedOrderBy \cup {"bar"}, AllowedDirs \cup {"bar"}), admin : BOOLEAN]

\* the requests of two admins listing the same collection side by side
PagingRequest == [args : QueryArgs({str(1)}, {str(1)}, {<<97>>}, {"failure_ts"}, {}), admin : {TRUE}]

\* whole listings in either direction
SortingRequest == [args : {a @@ ("dir" :> d) : a \in QueryArgs({}, {}, {<<97>>}, AllowedOrderBy, {}), d \in AllowedDirs}, admin : {TRUE}]

NoRequest == [args |-> <<>>, admin |-> FALSE]

NoResponse == [code |-> 0, body |-> <<>>]

NoView == [queried |-> FALSE, store |-> <<>>]

NoClient == [status |-> "none", args |-> <<>>, pages |-> <<>>, sent |-> 0]

-----------------------------------------------------------------------------
(* Actions *)

\* a request arrives; the handler starts and awaits the admin check
Receive(r, requests) == /\ pc[r] = "idle"
                        /\ \E q \in requests : req' = [req EXCEPT ![r] = q]
                        /\ pc' = [pc EXCEPT ![r] = "auth"]
                        /\ UNCHANGED <<store, wpc, resp, view, client>>

\* mutant: the admin check left out
AuthorizeAnyone(r) == /\ pc[r] = "auth"
                      /\ pc' = [pc EXCEPT ![r] = "query"]
                      /\ UNCHANGED <<store, wpc, req, resp, view, client>>

\* the admin check completes: 403 for a caller who is no server admin
Authorize(r) == /\ pc[r] = "auth"
                /\ IF assert_requester_is_admin(req[r])
                   THEN pc' = [pc EXCEPT ![r] = "query"] /\ UNCHANGED resp
                   ELSE pc' = [pc EXCEPT ![r] = "done"] /\ resp' = [resp EXCEPT ![r] = SynapseError(403, FORBIDDEN)]
                /\ UNCHANGED <<store, wpc, req, view, client>>

\* the rest of the handler: parameter checks, the one query, the response;
\* it leaves the collection as newStore
HandleWith(r, newStore) == /\ pc[r] = "query"
                           /\ resp' = [resp EXCEPT ![r] = on_GET(req[r].args, store).response]
                           /\ view' = [view EXCEPT ![r] = IF on_GET(req[r].args, store).queried THEN [queried |-> TRUE, store |-> store] ELSE NoView]
                           /\ pc' = [pc EXCEPT ![r] = "done"]
                           /\ store' = newStore
                           /\ UNCHANGED <<wpc, req, client>>

\* mutant: listing creates the record of the destination it filters by
HandleTouching(r) == HandleWith(r, IF "destination" \in DOMAIN req[r].args THEN set_destination_last_successful_stream_ordering(store, req[r].args["destination"], 1) ELSE store)

Handle(r) == HandleWith(r, store)

\* the response is sent; nothing of the request is kept
Reply(r) == /\ pc[r] = "done"
            /\ pc' = [pc EXCEPT ![r] = "idle"]
            /\ req' = [req EXCEPT ![r] = NoRequest]
            /\ resp' = [resp EXCEPT ![r] = NoResponse]
            /\ view' = [view EXCEPT ![r] = NoView]
            /\ UNCHANGED <<store, wpc, client>>

\* an external writer records a retry attempt
SetRetryTimings(w) == /\ wpc[w] = "ready"
                      /\ \E dest \in AllDests, t \in TimingInputs : store' = set_destination_retry_timings(store, dest, t[1], t[2], t[3])
                      /\ wpc' = [wpc EXCEPT ![w] = "done"]
                      /\ UNCHANGED <<pc, req, resp, view, client>>

\* an external writer records a successful delivery
SetLastSuccessfulStreamOrdering(w) == /\ wpc[w] = "ready"
                                      /\ \E dest \in AllDests, o \in OrderingInputs : store' = set_destination_last_successful_stream_ordering(store, dest, o)
                                      /\ wpc' = [wpc EXCEPT ![w] = "done"]
                                      /\ UNCHANGED <<pc, req, resp, view, client>>

-----------------------------------------------------------------------------
(* Specifications *)

InitialStores == {_create_destinations(n) : n \in 0..NumDests}

InitWith(slots, writers) == /\ store \in InitialStores
                            /\ wpc = [w \in writers |-> "ready"]
                            /\ pc = [r \in slots |-> "idle"]
                            /\ req = [r \in slots |-> NoRequest]
                            /\ resp = [r \in slots |-> NoResponse]
                            /\ view = [r \in slots |-> NoView]
                            /\ client = NoClient

\* one request at a time, any parameters, one concurrent writer
Init == InitWith({"r1"}, {"w1"})

Next == \/ \E r \in DOMAIN pc : Receive(r, AnyRequest)
        \/ \E r \in DOMAIN pc : Authorize(r)
        \/ \E r \in DOMAIN pc : Handle(r)
        \/ \E r \in DOMAIN pc : Reply(r)
        \/ \E w \in DOMAIN wpc : SetRetryTimings(w)
        \/ \E w \in DOMAIN wpc : SetLastSuccessfulStreamOrdering(w)

Spec == Init /\ [][Next]_vars

\* two requests in flight at once, with a concurrent writer
InitConcurrent == InitWith({"r1", "r2"}, {"w1"})

NextConcurrent == \/ \E r \in DOMAIN pc : Receive(r, PagingRequest)
                  \/ \E r \in DOMAIN pc : Authorize(r)
                  \/ \E r \in DOMAIN pc : Handle(r)
                  \/ \E r \in DOMAIN pc : Reply(r)
                  \/ \E w \in DOMAIN wpc : SetRetryTimings(w)
                  \/ \E w \in DOMAIN wpc : SetLastSuccessfulStreamOrdering(w)

SpecConcurrent == InitConcurrent /\ [][NextConcurrent]_vars

\* two whole listings in flight at once, with a concurrent writer
NextSorting == \/ \E r \in DOMAIN pc : Receive(r, SortingRequest)
               \/ \E r \in DOMAIN pc : Authorize(r)
               \/ \E r \in DOMAIN pc : Handle(r)
               \/ \E r \in DOMAIN pc : Reply(r)
               \/ \E w \in DOMAIN wpc : SetRetryTimings(w)
               \/ \E w \in DOMAIN wpc : SetLastSuccessfulStreamOrdering(w)

SpecSorting == InitConcurrent /\ [][NextSorting]_vars

-----------------------------------------------------------------------------
(* A paginating client on an unchanged collection *)

\* the collections a store can hold when the client starts: a fixture, or a
\* fixture after one write
ClientStores == InitialStores \cup {set_destination_retry_timings(st, dest, t[1], t[2], t[3]) : st \in InitialStores, dest \in AllDests, t \in TimingInputs} \cup {set_destination_last_successful_stream_ordering(st, dest, o) : st \in InitialStores, dest \in AllDests, o \in OrderingInputs}

\* from=0 and a fixed limit >= 1 (or the default), any filter, order and direction
ClientArgs == {("from" :> str(0)) @@ a : a \in QueryArgs({}, IntTexts(1, MaxLimit), {<<97>>}, {"failure_ts", "last_successful_stream_ordering"}, {"b"})}

\* the client issues its request with the current `from`
ClientSend(r) == /\ client.status = "ready"
                 /\ pc[r] = "idle"
                 /\ req' = [req EXCEPT ![r] = [args |-> client.args, admin |-> TRUE]]
                 /\ pc' = [pc EXCEPT ![r] = "auth"]
                 /\ client' = [client EXCEPT !.status = "waiting", !.sent = @ + 1]
                 /\ UNCHANGED <<store, wpc, resp, view>>

\* the client keeps the page and sets `from` to the returned next_token, or
\* stops when the response has none
ClientReceive(r) == /\ client.status = "waiting"
                    /\ pc[r] = "done"
                    /\ client' = IF "next_token" \in DOMAIN resp[r].body
                                 THEN [client EXCEPT !.status = "ready", !.pages = @ \o resp[r].body["destinations"], !.args = ("from" :> resp[r].body["next_token"]) @@ @]
                                 ELSE [client EXCEPT !.status = "done", !.pages = @ \o resp[r].body["destinations"]]
                    /\ pc' = [pc EXCEPT ![r] = "idle"]
                    /\ req' = [req EXCEPT ![r] = NoRequest]
                    /\ resp' = [resp EXCEPT ![r] = NoResponse]
                    /\ view' = [view EXCEPT ![r] = NoView]
                    /\ UNCHANGED <<store, wpc>>

InitClient == /\ store \in ClientStores
              /\ wpc = <<>>
              /\ pc = [r \in {"r1"} |-> "idle"]
              /\ req = [r \in {"r1"} |-> NoRequest]
              /\ resp = [r \in {"r1"} |-> NoResponse]
              /\ view = [r \in {"r1"} |-> NoView]
              /\ \E a \in ClientArgs : client = [status |-> "ready", args |-> a, pages |-> <<>>, sent |-> 0]

NextClient == \/ \E r \in DOMAIN pc : ClientSend(r)
              \/ \E r \in DOMAIN pc : Authorize(r)
              \/ \E r \in DOMAIN pc : Handle(r)
              \/ \E r \in DOMAIN pc : ClientReceive(r)

\* the server answers every request and the client follows every token
SpecClient == InitClient /\ [][NextClient]_vars /\ WF_vars(NextClient)

-----------------------------------------------------------------------------
(* Properties *)

Slots == DOMAIN pc

Done(r) == pc[r] = "done"

Admin(r) == req[r].admin

Ok(r) == Done(r) /\ resp[r].code = 200

Failed(r, code, errcode) == Done(r) /\ resp[r].code = code /\ DOMAIN resp[r].body = {"errcode"} /\ resp[r].body["errcode"] = errcode

Has(r, name) == name \in DOMAIN req[r].args

\* the request's from and limit as integers (0 and 100 when absent)
FromOf(r) == IF Has(r, "from") THEN int(req[r].args["from"]) ELSE 0

LimitOf(r) == IF Has(r, "limit") THEN int(req[r].args["limit"]) ELSE 100

EnumsValid(r) == /\ Has(r, "order_by") => req[r].args["order_by"] \in SortKeys
                 /\ Has(r, "dir") => req[r].args["dir"] \in {"f", "b"}

HasToken(r) == "next_token" \in DOMAIN resp[r].body

Token(r) == resp[r].body["next_token"]

Page(r) == resp[r].body["destinations"]

Total(r) == resp[r].body["total"]

\* s is the decimal numeral of n >= 0: digits only, no leading zero
IsDecimalOf(s, n) == /\ Len(s) >= 1
                     /\ \A i \in 1..Len(s) : s[i] \in 48..57
                     /\ (Len(s) > 1 => s[1] # 48)
                     /\ DigitsValue(s) = n

\* C1: a successful response carries next_token iff from + limit < total,
\* and the token is the decimal string of from + the number of destinations
\* returned
C1_NextToken == \A r \in Slots : Ok(r) => /\ HasToken(r) <=> (FromOf(r) + LimitOf(r) < Total(r))
                                          /\ HasToken(r) => IsDecimalOf(Token(r), FromOf(r) + Len(Page(r)))

C1_Witness == \E r \in Slots : Ok(r) /\ HasToken(r) /\ Len(Page(r)) = 2 /\ Total(r) = 3 /\ Token(r) = <<50>>

\* C2: an authorized request with from >= 0, limit >= 0 and valid order_by
\* and dir succeeds and returns min(limit, max(0, total - from))
\* destinations; a from at or beyond total gives 200 with an empty list
C2_PageSize == \A r \in Slots : (Done(r) /\ Admin(r) /\ FromOf(r) >= 0 /\ LimitOf(r) >= 0 /\ EnumsValid(r)) => /\ resp[r].code = 200
                                                                                                             /\ Len(Page(r)) = Min(LimitOf(r), Max(0, Total(r) - FromOf(r)))

C2_Witness == \E r \in Slots : Ok(r) /\ Total(r) >= 1 /\ FromOf(r) >= Total(r) /\ LimitOf(r) >= 1 /\ Page(r) = <<>>

\* C3: for an authorized caller a negative from or a negative limit yields
\* 400 INVALID_PARAM whatever the other parameters are
C3_NegativeIsInvalidParam == \A r \in Slots : (Done(r) /\ Admin(r) /\ (FromOf(r) < 0 \/ LimitOf(r) < 0)) => Failed(r, 400, INVALID_PARAM)

C3_Witness == \E r \in Slots : Done(r) /\ Admin(r) /\ FromOf(r) >= 0 /\ LimitOf(r) < 0 /\ ~EnumsValid(r) /\ Failed(r, 400, INVALID_PARAM)

\* C4 as claimed: for an authorized caller an unrecognized order_by or dir
\* yields 400 UNKNOWN whatever the other parameters are
C4_Original == \A r \in Slots : (Done(r) /\ Admin(r) /\ ~EnumsValid(r)) => Failed(r, 400, UNKNOWN)

\* C4 amended: for an authorized caller an unrecognized order_by or dir
\* yields 400; the code is UNKNOWN when from and limit are both absent or
\* non-negative, and INVALID_PARAM when from or limit is negative
C4_UnknownAfterNumericChecks == \A r \in Slots : (Done(r) /\ Admin(r) /\ ~EnumsValid(r)) => IF FromOf(r) >= 0 /\ LimitOf(r) >= 0 THEN Failed(r, 400, UNKNOWN) ELSE Failed(r, 400, INVALID_PARAM)

C4_Witness == \E r \in Slots : Done(r) /\ Admin(r) /\ FromOf(r) >= 0 /\ LimitOf(r) >= 0 /\ Has(r, "dir") /\ req[r].args["dir"] = "bar" /\ ~Has(r, "order_by") /\ Failed(r, 400, UNKNOWN)

\* C5: a caller who is no server admin gets 403 FORBIDDEN for every
\* combination of parameters; the handler goes no further than the admin
\* check, so no parameter is validated and the query engine is not called
C5_NonAdminForbidden == \A r \in Slots : /\ (pc[r] = "query" => Admin(r))
                                         /\ (Done(r) /\ ~Admin(r)) => (Failed(r, 403, FORBIDDEN) /\ ~view[r].queried)

C5_Witness == \E r \in Slots : Done(r) /\ ~Admin(r) /\ FromOf(r) < 0 /\ ~EnumsValid(r) /\ Failed(r, 403, FORBIDDEN)

\* C6: the total of a successful response is the number of records of the
\* collection (as the query read it) that match the destination filter,
\* whatever from, limit, order_by and dir are
C6_TotalIsFilteredCount == \A r \in Slots : Ok(r) => /\ view[r].queried
                                                     /\ Total(r) = Cardinality({d \in DOMAIN view[r].store : Has(r, "destination") => Contains(d, req[r].args["destination"])})

C6_Witness == \E r \in Slots : Ok(r) /\ Has(r, "destination") /\ Total(r) = 2 /\ Len(Page(r)) = 1 /\ Cardinality(DOMAIN view[r].store) = 3 /\ Has(r, "order_by") /\ Has(r, "dir")

\* C9 as claimed: a token, when present, is strictly greater than from and
\* not greater than total, for any limit >= 0 including 0
C9_Original == \A r \in Slots : (Ok(r) /\ HasToken(r)) => (int(Token(r)) > FromOf(r) /\ int(Token(r)) <= Total(r))

\* C9 amended: a token, when present, is at least from and at most total; it
\* is strictly greater than from when limit >= 1, and equal to from when
\* limit = 0
C9_TokenAdvancesUnlessLimitZero == \A r \in Slots : (Ok(r) /\ HasToken(r)) => /\ int(Token(r)) >= FromOf(r)
                                                                              /\ int(Token(r)) <= Total(r)
                                                                              /\ LimitOf(r) >= 1 => int(Token(r)) > FromOf(r)
                                                                              /\ LimitOf(r) = 0 => int(Token(r)) = FromOf(r)

C9_Witness == \E r \in Slots : Ok(r) /\ HasToken(r) /\ LimitOf(r) = 0 /\ FromOf(r) = 1 /\ Token(r) = <<49>>

Reverse(s) == [i \in 1..Len(s) |-> s[Len(s) + 1 - i]]

OrderOf(r) == IF Has(r, "order_by") THEN req[r].args["order_by"] ELSE "destination"

DirOf(r) == IF Has(r, "dir") THEN req[r].args["dir"] ELSE "f"

SameFilter(r1, r2) == /\ Has(r1, "destination") <=> Has(r2, "destination")
                      /\ Has(r1, "destination") => req[r1].args["destination"] = req[r2].args["destination"]

\* a whole listing: from 0 and a limit that covers every record
Whole(r) == Ok(r) /\ FromOf(r) = 0 /\ LimitOf(r) >= Total(r)

\* C7: two whole listings of the same collection with the same filter and
\* the same order_by, one with dir=f and one with dir=b, are the reverse of
\* each other, ties and null sort values included
C7_BackwardIsReverse == \A r1, r2 \in Slots : (Whole(r1) /\ Whole(r2) /\ view[r1].store = view[r2].store /\ SameFilter(r1, r2) /\ OrderOf(r1) = OrderOf(r2) /\ DirOf(r1) = "f" /\ DirOf(r2) = "b") => Page(r2) = Reverse(Page(r1))

C7_Witness == \E r1, r2 \in Slots : /\ Whole(r1) /\ Whole(r2) /\ view[r1].store = view[r2].store /\ SameFilter(r1, r2)
                                    /\ OrderOf(r1) = "failure_ts" /\ OrderOf(r2) = "failure_ts" /\ DirOf(r1) = "f" /\ DirOf(r2) = "b"
                                    /\ Len(Page(r1)) = 3 /\ Page(r1)[1].failure_ts = Null /\ Page(r1)[2].failure_ts = Page(r1)[3].failure_ts
                                    /\ Page(r2) = Reverse(Page(r1))

\* the whole ordered filtered sequence the client asks for
FullListing == LET all == Ordered(store, Destination(client.args), OrderBy(client.args), Direction(client.args)) IN [i \in 1..Len(all) |-> Row(store, all[i])]

ClientComplete == /\ client.status = "done"
                  /\ client.pages = FullListing
                  /\ Len(client.pages) = Cardinality(Matching(store, Destination(client.args)))
                  /\ {client.pages[i].destination : i \in 1..Len(client.pages)} = Matching(store, Destination(client.args))

\* C8: on an unchanged collection a client that starts at from=0 with a
\* fixed limit >= 1 and follows next_token stops after finitely many
\* requests, and the pages it received, concatenated, are the whole ordered
\* filtered sequence, every matching record once
C8_ClientGetsEverything == <>[]ClientComplete

C8_Witness == client.status = "done" /\ client.sent = 3 /\ Len(client.pages) = 3 /\ "dir" \in DOMAIN client.args /\ client.args["dir"] = "b" /\ client.pages = FullListing

C10_Deterministic == \A r1, r2 \in Slots : (Done(r1) /\ Done(r2) /\ req[r1] = req[r2] /\ view[r1] = view[r2]) => resp[r1] = resp[r2]

C10_ReadOnlyStep == store' # store => \E w \in DOMAIN wpc : wpc[w] = "ready" /\ wpc'[w] = "done"

=============================================================================
